---- MODULE Spec2Model ----
(***************************************************************************)
(* modman: modules of dotfile resources that are linked into the home      *)
(* directory.  The model covers src/src/module.rs: the permission check,   *)
(* the loading and verification of a module, the listing of a modules      *)
(* directory, and install / uninstall over a POSIX file tree with          *)
(* symbolic links.                                                         *)
(***************************************************************************)
EXTENDS Integers, Sequences, FiniteSets, TLC

VARIABLES
    fs,        \* the file tree: path -> node
    cfg,       \* module directory -> decoded content of its config.toml
    last,      \* the record of the most recent call (install, uninstall, new, list)
    prev,      \* the record of the call before it
    mode,      \* check_permissions: the mode argument
    desired,   \* check_permissions: the desired argument
    granted    \* check_permissions: the value returned for (mode, desired)

vars == <<fs, cfg, last, prev, mode, desired, granted>>

----------------------------------------------------------------------------
(* Bounds of the model *)

\* symbolic links followed while resolving one path before ELOOP
MaxFollow == 4
\* check_permissions is explored for every mode in 0..MaxMode
MaxMode == 1023
\* ... and every desired mask in 0..MaxDesired
MaxDesired == 15

----------------------------------------------------------------------------
(* Constants of module.rs *)

CONFIG_FILE == "config.toml"
INIT_SCRIPT == "init.sh"
CLEANUP_SCRIPT == "cleanup.sh"
PERMISSIONS_RX == 5
PERMISSIONS_R == 4

----------------------------------------------------------------------------
(* Bit arithmetic on u32 *)

RECURSIVE BitAnd(_, _)
BitAnd(a, b) ==
    IF a = 0 \/ b = 0 THEN 0
    ELSE (a % 2) * (b % 2) + 2 * BitAnd(a \div 2, b \div 2)

ShiftRight(a, n) == a \div (2 ^ n)

check_permissions_any(m, d) == BitAnd(ShiftRight(m, 6), d) # 0

check_permissions(m, d) == BitAnd(ShiftRight(m, 6), d) = d

----------------------------------------------------------------------------
(* Paths: sequences of components; <<>> is the root directory *)

Parent(p) == SubSeq(p, 1, Len(p) - 1)

file_name(p) == p[Len(p)]

Join(p, q) == p \o q

\* Path::ancestors(): the path itself, then each parent up to the root
ancestors(p) == [i \in 1..(Len(p) + 1) |-> SubSeq(p, 1, Len(p) + 1 - i)]

HomeDir == <<"h">>
ModulesDir == <<"r">>
ModM == <<"r", "m">>
ModN == <<"r", "n">>
Other == <<"o">>

Universe ==
    { <<>>, HomeDir, <<"h", "a">>, <<"h", "a", "b">>,
      Other, <<"o", "f">>, <<"o", "d">>, <<"o", "d", "b">>, <<"o", "x">>,
      ModulesDir, <<"r", "z">>,
      ModM, Join(ModM, <<CONFIG_FILE>>), Join(ModM, <<INIT_SCRIPT>>),
      Join(ModM, <<CLEANUP_SCRIPT>>), <<"r", "m", "rf">>, <<"r", "m", "rd">>,
      <<"r", "m", "rd", "b">>,
      ModN, Join(ModN, <<CONFIG_FILE>>), Join(ModN, <<INIT_SCRIPT>>), <<"r", "n", "rf">> }

----------------------------------------------------------------------------
(* File tree nodes *)

NoNode == [kind |-> "none", to |-> <<>>, perm |-> 0]
FileNode(m) == [kind |-> "file", to |-> <<>>, perm |-> m]
DirNode(m) == [kind |-> "dir", to |-> <<>>, perm |-> m]
LinkNode(t) == [kind |-> "link", to |-> t, perm |-> 511]

KindAt(f, p) == IF p \in Universe THEN f[p].kind ELSE "none"

Children(f, p) == {q \in Universe : q # <<>> /\ Parent(q) = p /\ f[q].kind # "none"}

\* the outcome of a file system call: ok with the tree after it, or an
\* error code with the tree unchanged; at is the node or value it yields
IoOk(f) == [ok |-> TRUE, fs |-> f, err |-> "", at |-> <<>>]
IoErr(f, e) == [ok |-> FALSE, fs |-> f, err |-> e, at |-> <<>>]
IoAt(f, p) == [ok |-> TRUE, fs |-> f, err |-> "", at |-> p]

\* Path resolution as the kernel does it: every component but the last is
\* followed when it is a symbolic link and must be a directory; the last
\* one is followed only when follow is TRUE.  at is the node reached
\* (which may be absent when only the last component is missing).
RECURSIVE Walk(_, _, _, _, _)
WalkOn(f, t, rest, follow, fuel) ==
    IF ~t.ok THEN t ELSE Walk(f, t.at, rest, follow, fuel)

WalkInto(f, nxt, rest, follow, fuel) ==
    IF KindAt(f, nxt) = "link" /\ (Len(rest) > 1 \/ follow)
    THEN IF fuel = 0 THEN IoErr(f, "ELOOP")
         ELSE WalkOn(f, Walk(f, <<>>, f[nxt].to, TRUE, fuel - 1), Tail(rest), follow, fuel - 1)
    ELSE Walk(f, nxt, Tail(rest), follow, fuel)

Walk(f, cur, rest, follow, fuel) ==
    IF rest = <<>> THEN IoAt(f, cur)
    ELSE IF KindAt(f, cur) = "none" THEN IoErr(f, "ENOENT")
    ELSE IF KindAt(f, cur) # "dir" THEN IoErr(f, "ENOTDIR")
    ELSE WalkInto(f, Append(cur, Head(rest)), rest, follow, fuel)

Stat(f, p) == Walk(f, <<>>, p, TRUE, MaxFollow)
LStat(f, p) == Walk(f, <<>>, p, FALSE, MaxFollow)

\* the kind of node a resolution reached ("none": nothing there)
Reached(f, s) == IF s.ok THEN KindAt(f, s.at) ELSE "none"

\* Path::exists, is_file, is_dir: all follow symbolic links
exists(f, p) == Reached(f, Stat(f, p)) # "none"
is_file(f, p) == Reached(f, Stat(f, p)) = "file"
is_dir(f, p) == Reached(f, Stat(f, p)) = "dir"

\* Metadata::permissions().mode() of the node the path resolves to
mode_of(f, p) == f[Stat(f, p).at].perm

\* fs::remove_file: unlink(2), never follows the last component
remove_file_at(f, l) ==
    IF ~l.ok THEN l
    ELSE IF KindAt(f, l.at) = "none" THEN IoErr(f, "ENOENT")
    ELSE IF KindAt(f, l.at) = "dir" THEN IoErr(f, "EISDIR")
    ELSE IoOk([f EXCEPT ![l.at] = NoNode])

remove_file(f, p) == remove_file_at(f, LStat(f, p))

\* fs::remove_dir: rmdir(2), only an empty real directory
remove_dir_at(f, l) ==
    IF ~l.ok THEN l
    ELSE IF KindAt(f, l.at) = "none" THEN IoErr(f, "ENOENT")
    ELSE IF KindAt(f, l.at) # "dir" THEN IoErr(f, "ENOTDIR")
    ELSE IF Children(f, l.at) # {} THEN IoErr(f, "ENOTEMPTY")
    ELSE IoOk([f EXCEPT ![l.at] = NoNode])

remove_dir(f, p) == remove_dir_at(f, LStat(f, p))

\* a new node at the place a resolution reached, which must be free
create_at(f, l, node) ==
    IF ~l.ok THEN l
    ELSE IF KindAt(f, l.at) # "none" THEN IoErr(f, "EEXIST")
    ELSE IF l.at \notin Universe THEN IoErr(f, "EOUTSIDE")
    ELSE IoOk([f EXCEPT ![l.at] = node])

\* std::os::unix::fs::symlink(src, dst): symlink(2), dst must not exist
symlink(f, src, dst) == create_at(f, LStat(f, dst), LinkNode(src))

\* fs::read_link: readlink(2); at is the value of the link
read_link_at(f, l) ==
    IF ~l.ok THEN l
    ELSE IF KindAt(f, l.at) = "none" THEN IoErr(f, "ENOENT")
    ELSE IF KindAt(f, l.at) # "link" THEN IoErr(f, "EINVAL")
    ELSE IoAt(f, f[l.at].to)

read_link(f, p) == read_link_at(f, LStat(f, p))

mkdir(f, p) == create_at(f, LStat(f, p), DirNode(493))

\* fs::create_dir_all
RECURSIVE create_dir_all(_, _)
create_dir_again(p, m2) ==
    IF m2.ok \/ is_dir(m2.fs, p) THEN IoOk(m2.fs) ELSE m2

create_dir_under(p, up) ==
    IF ~up.ok THEN up ELSE create_dir_again(p, mkdir(up.fs, p))

create_dir_first(f, p, m) ==
    IF m.ok THEN m
    ELSE IF m.err = "ENOENT" THEN create_dir_under(p, create_dir_all(f, Parent(p)))
    ELSE IF is_dir(f, p) THEN IoOk(f)
    ELSE m

create_dir_all(f, p) ==
    IF p = <<>> THEN IoOk(f) ELSE create_dir_first(f, p, mkdir(f, p))

----------------------------------------------------------------------------
(* ModuleError and results *)

Ok == [kind |-> "Ok", name |-> "", detail |-> <<>>]
Err(k, n, d) == [kind |-> k, name |-> n, detail |-> d]

file_name_to_string(p) == file_name(p)

wrap_io_error(n, e) == Err("IO", n, <<e>>)

\* the owner may read the node the path resolves to
OwnerRead(f, at) == BitAnd(ShiftRight(f[at].perm, 6), 4) = 4

\* fs::read of a whole file
read_at(f, s) ==
    IF ~s.ok THEN s
    ELSE IF KindAt(f, s.at) = "none" THEN IoErr(f, "ENOENT")
    ELSE IF KindAt(f, s.at) = "dir" THEN IoErr(f, "EISDIR")
    ELSE IF ~OwnerRead(f, s.at) THEN IoErr(f, "EACCES")
    ELSE IoOk(f)

read(f, p) == read_at(f, Stat(f, p))

----------------------------------------------------------------------------
(* ModuleDef: new and verify *)

Keys == {"rf", "rd"}
Targets == {<<"a">>, <<"a", "b">>}

NoDef == [wellformed |-> FALSE, init |-> FALSE, cleanup |-> FALSE, resources |-> <<>>]

\* every order in which a HashMap with these keys may be iterated
Orders(keys) ==
    {o \in [1..Cardinality(keys) -> keys] : \A i, j \in DOMAIN o : o[i] = o[j] => i = j}

\* the check verify makes of one script or resource: it exists and the
\* owner has the desired access
Verified(f, p, want) == exists(f, p) /\ check_permissions(mode_of(f, p), want)

\* the first resource, in iteration order, that fails the check (0: none)
RECURSIVE FirstBad(_, _, _, _)
FirstBad(f, mp, order, i) ==
    IF i > Len(order) THEN 0
    ELSE IF ~Verified(f, Join(mp, <<order[i]>>), PERMISSIONS_R) THEN i
    ELSE FirstBad(f, mp, order, i + 1)

verify_resources(n, order, bad) ==
    IF bad # 0 THEN Err("Resource", n, <<order[bad]>>) ELSE Ok

verify_resources_first(f, d, mp, order) ==
    IF FirstBad(f, mp, order, 1) # 0
    THEN verify_resources(file_name_to_string(mp), order, FirstBad(f, mp, order, 1))
    ELSE IF d.init /\ ~Verified(f, Join(mp, <<INIT_SCRIPT>>), PERMISSIONS_RX)
    THEN Err("Script", file_name_to_string(mp), <<"init">>)
    ELSE IF d.cleanup /\ ~Verified(f, Join(mp, <<CLEANUP_SCRIPT>>), PERMISSIONS_RX)
    THEN Err("Script", file_name_to_string(mp), <<"cleanup">>)
    ELSE Ok

verify(f, d, mp, order) ==
    IF d.init /\ ~Verified(f, Join(mp, <<INIT_SCRIPT>>), PERMISSIONS_RX)
    THEN Err("Script", file_name_to_string(mp), <<"init">>)
    ELSE IF d.cleanup /\ ~Verified(f, Join(mp, <<CLEANUP_SCRIPT>>), PERMISSIONS_RX)
    THEN Err("Script", file_name_to_string(mp), <<"cleanup">>)
    ELSE verify_resources(file_name_to_string(mp), order, FirstBad(f, mp, order, 1))

\* the content of config.toml as toml::from_slice decodes it
ConfigOf(c, mp) == IF mp \in DOMAIN c THEN c[mp] ELSE NoDef

\* a module or a definition with the result of making it
Made(r, v) == [res |-> r, value |-> v]

ModuleDef_verified(d, v) == IF v.kind # "Ok" THEN Made(v, NoDef) ELSE Made(Ok, d)

ModuleDef_parsed(f, mp, order, rd, d) ==
    IF ~rd.ok THEN Made(Err("IO", file_name_to_string(mp), <<rd.err>>), NoDef)
    ELSE IF ~d.wellformed THEN Made(Err("Parse", file_name_to_string(mp), <<"toml">>), NoDef)
    ELSE ModuleDef_verified(d, verify(f, d, mp, order))

ModuleDef_new(f, c, mp, order) ==
    ModuleDef_parsed(f, mp, order, read(f, Join(mp, <<CONFIG_FILE>>)), ConfigOf(c, mp))

----------------------------------------------------------------------------
(* Module: new, name, read_dir, list *)

NoModule == [path |-> <<>>, definition |-> NoDef]

Module_made(mp, md) ==
    IF md.res.kind # "Ok" THEN Made(md.res, NoModule)
    ELSE Made(Ok, [path |-> mp, definition |-> md.value])

Module_new_unverified(f, c, mp, order) ==
    Module_made(mp, ModuleDef_verified(ConfigOf(c, mp),
        IF read(f, Join(mp, <<CONFIG_FILE>>)).ok /\ ConfigOf(c, mp).wellformed THEN Ok
        ELSE ModuleDef_new(f, c, mp, order).res))

Module_new(f, c, mp, order) == Module_made(mp, ModuleDef_new(f, c, mp, order))

name(m) == file_name(m.path)

\* the order in which a module's resources are iterated when it is loaded
\* from mp: any order of the keys of its decoded configuration
KeyOrders(c, mp) ==
    IF ConfigOf(c, mp).wellformed THEN Orders(DOMAIN ConfigOf(c, mp).resources) ELSE {<<>>}

\* fs::read_dir: the names of the entries, or ModuleError::Directory
read_dir_at(f, s) ==
    IF Reached(f, s) = "dir" /\ OwnerRead(f, s.at)
    THEN [res |-> Ok, entries |-> {q[Len(q)] : q \in Children(f, s.at)}]
    ELSE [res |-> Err("Directory", "", <<>>), entries |-> {}]

read_dir(f, p) == read_dir_at(f, Stat(f, p))

\* the loop of list, for one enumeration order of the directory (a
\* sequence of entry names) and one key order per entry
RECURSIVE list_entries(_, _, _, _, _)
list_entries(f, c, dir, entries, korder) ==
    IF entries = <<>> THEN <<>>
    ELSE IF is_dir(f, Join(dir, <<Head(entries)>>))
    THEN <<Module_new(f, c, Join(dir, <<Head(entries)>>), korder[Head(entries)])>>
         \o list_entries(f, c, dir, Tail(entries), korder)
    ELSE list_entries(f, c, dir, Tail(entries), korder)

RECURSIVE UpToFirstError(_)
UpToFirstError(items) ==
    IF items = <<>> THEN <<>>
    ELSE IF Head(items).res.kind # "Ok" THEN <<Head(items)>>
    ELSE <<Head(items)>> \o UpToFirstError(Tail(items))

list_stops_at_error(f, c, dir, entries, korder) ==
    IF read_dir(f, dir).res.kind # "Ok" THEN [res |-> read_dir(f, dir).res, items |-> <<>>]
    ELSE [res |-> Ok, items |-> UpToFirstError(list_entries(f, c, dir, entries, korder))]

list_empty_on_error(f, c, dir, entries, korder) ==
    [res |-> Ok, items |-> IF read_dir(f, dir).res.kind # "Ok" THEN <<>>
                           ELSE list_entries(f, c, dir, entries, korder)]

list(f, c, dir, entries, korder) ==
    IF read_dir(f, dir).res.kind # "Ok" THEN [res |-> read_dir(f, dir).res, items |-> <<>>]
    ELSE [res |-> Ok, items |-> list_entries(f, c, dir, entries, korder)]

----------------------------------------------------------------------------
(* Module: install *)

Ev(e, p) == [ev |-> e, at |-> p]

\* where a call stands: the tree, the result so far, the calls that
\* changed the tree or spawned a script, and how the script ended
Step(f, r, t) == [fs |-> f, res |-> r, trace |-> t, script |-> "none"]

\* dirs::home_dir().unwrap().join(system_file)
SystemFile(m, key) == Join(HomeDir, m.definition.resources[key])

\* the first ancestor (the path itself first) that exists and is not a
\* directory; ok when there is none
RECURSIVE verify_module_creation_from(_, _, _)
\* a variant that reports the path asked about, not the ancestor in the way
verify_module_creation_from_self(f, anc, i) ==
    IF i > Len(anc) THEN [ok |-> TRUE, path |-> <<>>]
    ELSE IF Reached(f, Stat(f, anc[i])) \notin {"none", "dir"} THEN [ok |-> FALSE, path |-> anc[1]]
    ELSE verify_module_creation_from(f, anc, i + 1)

verify_module_creation_from(f, anc, i) ==
    IF i > Len(anc) THEN [ok |-> TRUE, path |-> <<>>]
    ELSE IF Reached(f, Stat(f, anc[i])) \notin {"none", "dir"} THEN [ok |-> FALSE, path |-> anc[i]]
    ELSE verify_module_creation_from(f, anc, i + 1)

verify_module_creation(f, p) == verify_module_creation_from(f, ancestors(p), 1)

\* the first loop of install: existing system files
RECURSIVE install_check(_, _, _, _, _)
install_check_removed(r, f, m, order, remove_existing, tr, ev) ==
    IF ~r.ok THEN Step(f, wrap_io_error(name(m), r.err), tr)
    ELSE install_check(r.fs, m, Tail(order), remove_existing, Append(tr, ev))

\* a variant that removes a blocking ancestor whether or not force is given
install_check_absent_removes(v, f, m, order, remove_existing, tr) ==
    IF v.ok THEN install_check(f, m, Tail(order), remove_existing, tr)
    ELSE install_check_removed(remove_file(f, v.path), f, m, order, remove_existing, tr,
                               Ev("remove_file", v.path))

install_check_absent(v, f, m, order, remove_existing, tr) ==
    IF v.ok THEN install_check(f, m, Tail(order), remove_existing, tr)
    ELSE IF remove_existing
    THEN install_check_removed(remove_file(f, v.path), f, m, order, remove_existing, tr,
                               Ev("remove_file", v.path))
    ELSE Step(f, Err("InstallPath", name(m), v.path), tr)

\* a variant that passes over a system file already linked to its resource
install_check_one_linked(f, m, order, remove_existing, tr, system_file) ==
    IF read_link(f, system_file).ok /\ read_link(f, system_file).at = Join(m.path, <<Head(order)>>)
    THEN install_check(f, m, Tail(order), remove_existing, tr)
    ELSE IF exists(f, system_file) /\ remove_existing
    THEN IF is_file(f, system_file)
         THEN install_check_removed(remove_file(f, system_file), f, m, order, remove_existing,
                                    tr, Ev("remove_file", system_file))
         ELSE install_check_removed(remove_dir(f, system_file), f, m, order, remove_existing,
                                    tr, Ev("remove_dir", system_file))
    ELSE IF exists(f, system_file)
    THEN Step(f, Err("Install", name(m), system_file), tr)
    ELSE install_check_absent(verify_module_creation(f, system_file), f, m, order,
                              remove_existing, tr)

install_check_one(f, m, order, remove_existing, tr, system_file) ==
    IF exists(f, system_file) /\ remove_existing
    THEN IF is_file(f, system_file)
         THEN install_check_removed(remove_file(f, system_file), f, m, order, remove_existing,
                                    tr, Ev("remove_file", system_file))
         ELSE install_check_removed(remove_dir(f, system_file), f, m, order, remove_existing,
                                    tr, Ev("remove_dir", system_file))
    ELSE IF exists(f, system_file)
    THEN Step(f, Err("Install", name(m), system_file), tr)
    ELSE install_check_absent(verify_module_creation(f, system_file), f, m, order,
                              remove_existing, tr)

install_check(f, m, order, remove_existing, tr) ==
    IF order = <<>> THEN Step(f, Ok, tr)
    ELSE install_check_one(f, m, order, remove_existing, tr, SystemFile(m, Head(order)))

\* the second loop of install: one symbolic link per resource
RECURSIVE install_link(_, _, _, _)
\* a variant that passes over a link it could not make and goes on
install_link_made_goes_on(l, f, m, order, tr, system_file) ==
    IF ~l.ok THEN install_link(f, m, Tail(order), tr)
    ELSE install_link(l.fs, m, Tail(order), Append(tr, Ev("symlink", system_file)))

install_link_made(l, f, m, order, tr, system_file) ==
    IF ~l.ok THEN Step(f, wrap_io_error(name(m), l.err), tr)
    ELSE install_link(l.fs, m, Tail(order), Append(tr, Ev("symlink", system_file)))

install_link_one(c, m, order, tr, system_file) ==
    IF ~c.ok THEN Step(c.fs, wrap_io_error(name(m), c.err), tr)
    ELSE install_link_made(symlink(c.fs, Join(m.path, <<Head(order)>>), system_file),
                           c.fs, m, order, tr, system_file)

install_link(f, m, order, tr) ==
    IF order = <<>> THEN Step(f, Ok, tr)
    ELSE install_link_one(create_dir_all(f, Parent(SystemFile(m, Head(order)))), m, order, tr,
                          SystemFile(m, Head(order)))

\* process::Command::new(script).spawn()?.wait()? and the exit status
\* check.  exit is what the child process does: "zero", "nonzero",
\* "signal"; or the spawn itself fails ("spawnerr"), or the wait for the
\* spawned child does ("waiterr").
run_script(s, m, script, exit) ==
    IF exit = "spawnerr"
    THEN [s EXCEPT !.res = wrap_io_error(name(m), "ENOEXEC"), !.script = exit]
    ELSE IF exit = "waiterr"
    THEN [s EXCEPT !.res = wrap_io_error(name(m), "ECHILD"),
                   !.trace = Append(s.trace, Ev("spawn", Join(m.path, <<script>>))),
                   !.script = exit]
    ELSE [s EXCEPT !.res = IF exit = "zero" THEN Ok ELSE Err("Exec", name(m), <<script>>),
                   !.trace = Append(s.trace, Ev("spawn", Join(m.path, <<script>>))),
                   !.script = exit]

install_init(b, m, exit) ==
    IF b.res.kind # "Ok" THEN b
    ELSE IF m.definition.init THEN run_script(b, m, INIT_SCRIPT, exit)
    ELSE b

install_links(a, m, order, exit) ==
    IF a.res.kind # "Ok" THEN a
    ELSE install_init(install_link(a.fs, m, order, a.trace), m, exit)

\* a variant that checks and links one resource after the other
RECURSIVE install_each_resource(_, _, _, _, _)
install_each_linked(b, m, remove_existing, order) ==
    IF b.res.kind # "Ok" THEN b
    ELSE install_each_resource(b.fs, m, remove_existing, Tail(order), b.trace)

install_each_checked(a, m, remove_existing, order) ==
    IF a.res.kind # "Ok" THEN a
    ELSE install_each_linked(install_link(a.fs, m, <<Head(order)>>, a.trace),
                             m, remove_existing, order)

install_each_resource(f, m, remove_existing, order, tr) ==
    IF order = <<>> THEN Step(f, Ok, tr)
    ELSE install_each_checked(install_check(f, m, <<Head(order)>>, remove_existing, tr),
                              m, remove_existing, order)

install_interleaved(f, m, remove_existing, order, exit) ==
    install_init(install_each_resource(f, m, remove_existing, order, <<>>), m, exit)

install(f, m, remove_existing, order, exit) ==
    install_links(install_check(f, m, order, remove_existing, <<>>), m, order, exit)

----------------------------------------------------------------------------
(* Module: uninstall *)

\* the verification loop of uninstall (not run under force)
RECURSIVE uninstall_verify(_, _, _)
\* a variant that reports a target it cannot read as a link as a mismatch
uninstall_verify_link_mismatch(l, f, m, order) ==
    IF ~l.ok THEN Err("Uninstall", name(m), SystemFile(m, Head(order)))
    ELSE IF l.at # Join(m.path, <<Head(order)>>) THEN Err("Uninstall", name(m), l.at)
    ELSE uninstall_verify(f, m, Tail(order))

uninstall_verify_link(l, f, m, order) ==
    IF ~l.ok THEN Err("IO", name(m), <<l.err>>)
    ELSE IF l.at # Join(m.path, <<Head(order)>>) THEN Err("Uninstall", name(m), l.at)
    ELSE uninstall_verify(f, m, Tail(order))

uninstall_verify(f, m, order) ==
    IF order = <<>> THEN Ok
    ELSE IF ~exists(f, SystemFile(m, Head(order))) THEN uninstall_verify(f, m, Tail(order))
    ELSE uninstall_verify_link(read_link(f, SystemFile(m, Head(order))), f, m, order)

\* the removal loop of uninstall
RECURSIVE uninstall_remove(_, _, _, _)
\* a variant that passes over a target it could not remove and goes on
uninstall_removed_goes_on(r, f, m, order, tr, ev) ==
    IF ~r.ok THEN uninstall_remove(f, m, Tail(order), tr)
    ELSE uninstall_remove(r.fs, m, Tail(order), Append(tr, ev))

uninstall_removed(r, f, m, order, tr, ev) ==
    IF ~r.ok THEN Step(f, wrap_io_error(name(m), r.err), tr)
    ELSE uninstall_remove(r.fs, m, Tail(order), Append(tr, ev))

uninstall_remove_one(f, m, order, tr, system_file) ==
    IF ~exists(f, system_file) THEN uninstall_remove(f, m, Tail(order), tr)
    ELSE IF is_file(f, system_file)
    THEN uninstall_removed(remove_file(f, system_file), f, m, order, tr,
                           Ev("remove_file", system_file))
    ELSE uninstall_removed(remove_dir(f, system_file), f, m, order, tr,
                           Ev("remove_dir", system_file))

uninstall_remove(f, m, order, tr) ==
    IF order = <<>> THEN Step(f, Ok, tr)
    ELSE uninstall_remove_one(f, m, order, tr, SystemFile(m, Head(order)))

uninstall_cleanup(r, m, exit) ==
    IF r.res.kind # "Ok" THEN r
    ELSE IF m.definition.cleanup THEN run_script(r, m, CLEANUP_SCRIPT, exit)
    ELSE r

uninstall_verified(v, f, m, order, exit) ==
    IF v.kind # "Ok" THEN Step(f, v, <<>>)
    ELSE uninstall_cleanup(uninstall_remove(f, m, order, <<>>), m, exit)

\* a variant that verifies and removes one resource after the other
RECURSIVE uninstall_each_resource(_, _, _, _, _)
uninstall_each_removed(r, m, force, order) ==
    IF r.res.kind # "Ok" THEN r
    ELSE uninstall_each_resource(r.fs, m, force, Tail(order), r.trace)

uninstall_each_verified(v, f, m, force, order, tr) ==
    IF v.kind # "Ok" THEN Step(f, v, tr)
    ELSE uninstall_each_removed(uninstall_remove(f, m, <<Head(order)>>, tr), m, force, order)

uninstall_each_resource(f, m, force, order, tr) ==
    IF order = <<>> THEN Step(f, Ok, tr)
    ELSE uninstall_each_verified(IF force THEN Ok ELSE uninstall_verify(f, m, <<Head(order)>>),
                                 f, m, force, order, tr)

uninstall_interleaved(f, m, force, order, exit) ==
    uninstall_cleanup(uninstall_each_resource(f, m, force, order, <<>>), m, exit)

uninstall(f, m, force, order, exit) ==
    uninstall_verified(IF force THEN Ok ELSE uninstall_verify(f, m, order), f, m, order, exit)

----------------------------------------------------------------------------
(* The state machine: calls of install and uninstall on the module r/m *)

Exits == {"zero", "nonzero", "signal", "spawnerr", "waiterr"}

Call(op, path, force, order, exit, res, pre, trace, items) ==
    [op |-> op, path |-> path, force |-> force, order |-> order, exit |-> exit,
     res |-> res, pre |-> pre, trace |-> trace, items |-> items]

NoCall(f) == Call("none", <<>>, FALSE, <<>>, "none", Ok, f, <<>>, <<>>)

\* what is kept of the call before the last one
Before(c) == [op |-> c.op, force |-> c.force, res |-> c.res]

\* what may stand at a path under the home directory before the first call
HomeNodes ==
    { NoNode, FileNode(420), DirNode(493),
      LinkNode(<<"r", "m", "rf">>), LinkNode(<<"r", "m", "rd">>),
      LinkNode(<<"o", "f">>), LinkNode(<<"o", "d">>), LinkNode(<<"o", "x">>) }

\* the tree outside the home directory: a valid module r/m with a file
\* resource rf and a directory resource rd, and foreign files under o
BaseTree ==
    [p \in Universe |->
        CASE p \in {<<>>, HomeDir, Other, ModulesDir, ModM,
                    <<"o", "d">>, <<"r", "m", "rd">>} -> DirNode(493)
          [] p \in {Join(ModM, <<INIT_SCRIPT>>), Join(ModM, <<CLEANUP_SCRIPT>>)} -> FileNode(493)
          [] p \in {Join(ModM, <<CONFIG_FILE>>), <<"r", "m", "rf">>, <<"o", "f">>} -> FileNode(420)
          [] OTHER -> NoNode]

HomeTrees ==
    { [BaseTree EXCEPT ![<<"h", "a">>] = a, ![<<"h", "a", "b">>] = b, ![<<"o", "d", "b">>] = c] :
        a \in HomeNodes, b \in HomeNodes, c \in {NoNode, FileNode(420)} }

\* a node exists only inside a real directory
WellFormed(f) ==
    \A p \in DOMAIN f : (p # <<>> /\ f[p].kind # "none") => f[Parent(p)].kind = "dir"

Defs ==
    { [wellformed |-> TRUE, init |-> i, cleanup |-> c, resources |-> r] :
        i \in BOOLEAN, c \in BOOLEAN,
        r \in UNION {[ks -> Targets] : ks \in SUBSET Keys} }

Init ==
    /\ fs \in {f \in HomeTrees : WellFormed(f) /\
                  (f[<<"o", "d", "b">>].kind # "none" => f[<<"h", "a">>] = LinkNode(<<"o", "d">>))}
    /\ cfg \in {[mp \in {ModM} |-> d] : d \in Defs}
    /\ last = NoCall(fs)
    /\ prev = Before(NoCall(fs))
    /\ mode = 0
    /\ desired = 0
    /\ granted = <<>>

\* one call: the tree it leaves and the record of it
Returns(op, force, order, r) ==
    /\ fs' = r.fs
    /\ last' = Call(op, ModM, force, order, r.script, r.res, fs, r.trace, <<>>)
    /\ prev' = Before(last)
    /\ UNCHANGED <<cfg, mode, desired, granted>>

\* the ways the script may end, if the call gets to run one
ExitsOf(r0) == IF r0.script = "none" THEN {"zero"} ELSE Exits

\* modman install [-f] m: the module is constructed, then installed
InstallCall(m, force, order, r0) ==
    \E exit \in ExitsOf(r0) :
        Returns("install", force, order,
                IF exit = "zero" THEN r0 ELSE install(fs, m, force, order, exit))

InstallModule(mn, order) ==
    /\ mn.res.kind = "Ok"
    /\ \E force \in BOOLEAN :
          InstallCall(mn.value, force, order, install(fs, mn.value, force, order, "zero"))

Install ==
    \E order \in KeyOrders(cfg, ModM) : InstallModule(Module_new(fs, cfg, ModM, order), order)

\* modman uninstall [-f] m: the module is constructed, then uninstalled
UninstallCall(m, force, order, r0) ==
    \E exit \in ExitsOf(r0) :
        Returns("uninstall", force, order,
                IF exit = "zero" THEN r0 ELSE uninstall(fs, m, force, order, exit))

UninstallModule(mn, order) ==
    /\ mn.res.kind = "Ok"
    /\ \E force \in BOOLEAN :
          UninstallCall(mn.value, force, order, uninstall(fs, mn.value, force, order, "zero"))

Uninstall ==
    \E order \in KeyOrders(cfg, ModM) : UninstallModule(Module_new(fs, cfg, ModM, order), order)

Next == Install \/ Uninstall

Spec == Init /\ [][Next]_vars

----------------------------------------------------------------------------
(* check_permissions on its own *)

InitPerm ==
    /\ mode \in 0..MaxMode
    /\ desired \in 0..MaxDesired
    /\ granted = <<>>
    /\ fs = BaseTree
    /\ cfg = [mp \in {ModM} |-> NoDef]
    /\ last = NoCall(fs)
    /\ prev = Before(NoCall(fs))

CheckPermissions ==
    /\ granted = <<>>
    /\ granted' = <<check_permissions(mode, desired)>>
    /\ UNCHANGED <<fs, cfg, last, prev, mode, desired>>

NextPerm == CheckPermissions

SpecPerm == InitPerm /\ [][NextPerm]_vars

----------------------------------------------------------------------------
(* Loading: Module::new and Module::list over a modules directory r *)

\* r/m: every combination of a configuration with scripts and resources
\* that are present or not, with or without the owner's access
InitScriptNodes == {NoNode, FileNode(493), FileNode(420), FileNode(73)}
CleanupScriptNodes == {NoNode, FileNode(493), FileNode(420)}
FileResourceNodes == {NoNode, FileNode(420), FileNode(128)}
DirResourceNodes == {NoNode, DirNode(493)}

LoadDefs ==
    { [wellformed |-> TRUE, init |-> i, cleanup |-> c, resources |-> [k \in ks |-> <<"a">>]] :
        i \in BOOLEAN, c \in BOOLEAN, ks \in SUBSET Keys }

\* the configuration file of r/m and what it decodes to
LoadConfigs ==
    {<<FileNode(420), d>> : d \in LoadDefs \cup {NoDef}}
    \cup {<<NoNode, NoDef>>, <<FileNode(128), NoDef>>}

\* r/n: absent, or a directory whose configuration is malformed or minimal
OtherModules ==
    { <<NoNode, NoNode, NoDef>>,
      <<DirNode(493), FileNode(420), NoDef>>,
      <<DirNode(493), FileNode(420), [NoDef EXCEPT !.wellformed = TRUE]>> }

LoadTree(conf, ini, cln, rf, rd, n, z) ==
    [BaseTree EXCEPT ![Join(ModM, <<CONFIG_FILE>>)] = conf[1],
                     ![Join(ModM, <<INIT_SCRIPT>>)] = ini,
                     ![Join(ModM, <<CLEANUP_SCRIPT>>)] = cln,
                     ![<<"r", "m", "rf">>] = rf,
                     ![<<"r", "m", "rd">>] = rd,
                     ![ModN] = n[1],
                     ![Join(ModN, <<CONFIG_FILE>>)] = n[2],
                     ![<<"r", "z">>] = z]

\* a modules directory that is missing, a file, or closed to its owner
NoModulesDir(node) ==
    [p \in Universe |-> IF p = ModulesDir THEN node
                        ELSE IF Len(p) >= 1 /\ p[1] = "r" /\ node.kind # "dir" THEN NoNode
                        ELSE BaseTree[p]]

InitLoad ==
    /\ \/ \E conf \in LoadConfigs, ini \in InitScriptNodes, cln \in CleanupScriptNodes,
             rf \in FileResourceNodes, rd \in DirResourceNodes,
             n \in OtherModules, z \in {NoNode, FileNode(420)} :
             /\ fs = LoadTree(conf, ini, cln, rf, rd, n, z)
             /\ cfg = [mp \in {ModM, ModN} |-> IF mp = ModM THEN conf[2] ELSE n[3]]
       \/ /\ fs \in {NoModulesDir(node) : node \in {NoNode, FileNode(420), DirNode(192)}}
          /\ cfg = [mp \in {ModM, ModN} |-> [NoDef EXCEPT !.wellformed = TRUE]]
    /\ last = NoCall(fs)
    /\ prev = Before(NoCall(fs))
    /\ mode = 0
    /\ desired = 0
    /\ granted = <<>>

\* one run of the program loads once: main calls list or resolve, and exits
Loads(op, path, order, res, items) ==
    /\ last.op = "none"
    /\ last' = Call(op, path, FALSE, order, "none", res, fs, <<>>, items)
    /\ prev' = Before(last)
    /\ UNCHANGED <<fs, cfg, mode, desired, granted>>

NewModule(path, order, mn) == Loads("new", path, order, mn.res, <<mn>>)

\* Module::new(modules_dir.join(name)), as resolve calls it for a name
New ==
    \E path \in {ModM, ModN, <<"r", "z">>} :
        \E order \in KeyOrders(cfg, path) :
            NewModule(path, order, Module_new(fs, cfg, path, order))

ListModules(entries, l) == Loads("list", ModulesDir, entries, l.res, l.items)

\* Module::list(modules_dir): the directory is enumerated in any order
List ==
    \E entries \in Orders(read_dir(fs, ModulesDir).entries) :
        \E om \in KeyOrders(cfg, ModM), on \in KeyOrders(cfg, ModN) :
            ListModules(entries, list(fs, cfg, ModulesDir, entries,
                                      [e \in {"m", "n", "z"} |->
                                          IF e = "m" THEN om ELSE IF e = "n" THEN on ELSE <<>>]))

NextLoad == New \/ List

SpecLoad == InitLoad /\ [][NextLoad]_vars

----------------------------------------------------------------------------
(* main: one invocation of install or uninstall over several modules *)

\* the command line: --all with the excluded names, or the names given
App(all, modules, exclude, force) ==
    [all |-> all, modules |-> modules, exclude |-> exclude, force |-> force]

\* resolve, for names given on the command line: the first module that
\* does not load ends it
RECURSIVE resolve_names(_, _, _, _)
resolve_next(mn, rest) ==
    IF rest.res.kind # "Ok" THEN rest
    ELSE [res |-> Ok, modules |-> <<mn.value>> \o rest.modules]

\* a variant that drops a module that does not load, as --all does
resolve_name_drops(mn, f, c, names, korder) ==
    IF mn.res.kind # "Ok" THEN resolve_names(f, c, Tail(names), korder)
    ELSE resolve_next(mn, resolve_names(f, c, Tail(names), korder))

resolve_name(mn, f, c, names, korder) ==
    IF mn.res.kind # "Ok" THEN [res |-> mn.res, modules |-> <<>>]
    ELSE resolve_next(mn, resolve_names(f, c, Tail(names), korder))

resolve_names(f, c, names, korder) ==
    IF names = <<>> THEN [res |-> Ok, modules |-> <<>>]
    ELSE resolve_name(Module_new(f, c, Join(ModulesDir, <<Head(names)>>), korder[Head(names)]),
                      f, c, names, korder)

\* resolve, for --all: the modules that load and are not excluded
resolve_kept(items) == [i \in DOMAIN items |-> items[i].value]

resolve_all(l, exclude) ==
    IF l.res.kind # "Ok" THEN [res |-> l.res, modules |-> <<>>]
    ELSE [res |-> Ok,
          modules |-> resolve_kept(SelectSeq(l.items,
                          LAMBDA i : i.res.kind = "Ok" /\ name(i.value) \notin exclude))]

resolve(f, c, app, entries, korder) ==
    IF app.all THEN resolve_all(list(f, c, ModulesDir, entries, korder), app.exclude)
    ELSE resolve_names(f, c, app.modules, korder)

\* what the loop of install or uninstall did with one module
Attempt(m, pre, r) ==
    [name |-> name(m), res |-> r.res, pre |-> pre, post |-> r.fs, trace |-> r.trace]

\* the loop of install: every module in turn, its error printed
RECURSIVE install_each(_, _, _, _, _)
install_rest(r, f, modules, force, korder, exits) ==
    <<Attempt(Head(modules), f, r)>> \o install_each(r.fs, Tail(modules), force, korder, exits)

\* a variant in which the first error ends the loop
install_rest_until_error(r, f, modules, force, korder, exits) ==
    IF r.res.kind # "Ok" THEN <<Attempt(Head(modules), f, r)>>
    ELSE install_rest(r, f, modules, force, korder, exits)

install_each_until_error(f, modules, force, korder, exits) ==
    IF modules = <<>> THEN <<>>
    ELSE install_rest_until_error(install(f, Head(modules), force, korder[name(Head(modules))],
                                          exits[name(Head(modules))]),
                                  f, modules, force, korder, exits)

install_each(f, modules, force, korder, exits) ==
    IF modules = <<>> THEN <<>>
    ELSE install_rest(install(f, Head(modules), force, korder[name(Head(modules))],
                              exits[name(Head(modules))]),
                      f, modules, force, korder, exits)

main_installed(rs, f, app, korder, exits) ==
    IF rs.res.kind # "Ok" THEN [res |-> rs.res, items |-> <<>>]
    ELSE [res |-> Ok, items |-> install_each(f, rs.modules, app.force, korder, exits)]

main_install(f, c, app, entries, korder, exits) ==
    main_installed(resolve(f, c, app, entries, korder), f, app, korder, exits)

\* the loop of uninstall
RECURSIVE uninstall_each(_, _, _, _, _)
uninstall_rest(r, f, modules, force, korder, exits) ==
    <<Attempt(Head(modules), f, r)>> \o uninstall_each(r.fs, Tail(modules), force, korder, exits)

uninstall_each(f, modules, force, korder, exits) ==
    IF modules = <<>> THEN <<>>
    ELSE uninstall_rest(uninstall(f, Head(modules), force, korder[name(Head(modules))],
                                  exits[name(Head(modules))]),
                        f, modules, force, korder, exits)

main_uninstalled(rs, f, app, korder, exits) ==
    IF rs.res.kind # "Ok" THEN [res |-> rs.res, items |-> <<>>]
    ELSE [res |-> Ok, items |-> uninstall_each(f, rs.modules, app.force, korder, exits)]

main_uninstall(f, c, app, entries, korder, exits) ==
    main_uninstalled(resolve(f, c, app, entries, korder), f, app, korder, exits)

\* the modules r/m and r/n of one invocation: each with at most the
\* resource rf; either may have a configuration that does not decode
BatchDefs == {d \in Defs : DOMAIN d.resources \subseteq {"rf"}}

BatchConfigs ==
    { [mp \in {ModM, ModN} |-> IF mp = ModM THEN dm ELSE dn] :
        dm \in {d \in BatchDefs : ~d.cleanup} \cup {NoDef},
        dn \in {d \in BatchDefs : ~d.cleanup} \cup {NoDef} }

BatchTrees ==
    { [BaseTree EXCEPT ![<<"h", "a">>] = a, ![<<"h", "a", "b">>] = b,
                       ![ModN] = DirNode(493),
                       ![Join(ModN, <<CONFIG_FILE>>)] = FileNode(420),
                       ![Join(ModN, <<INIT_SCRIPT>>)] = FileNode(493),
                       ![<<"r", "n", "rf">>] = FileNode(420)] :
        a \in {NoNode, FileNode(420), DirNode(493), LinkNode(<<"o", "f">>)},
        b \in {NoNode, FileNode(420)} }

InitBatch ==
    /\ fs \in {f \in BatchTrees : WellFormed(f)}
    /\ cfg \in BatchConfigs
    /\ last = NoCall(fs)
    /\ prev = Before(NoCall(fs))
    /\ mode = 0
    /\ desired = 0
    /\ granted = <<>>

\* the command lines tried: names in either order, or --all
Apps ==
    { App(FALSE, names, {}, force) :
        names \in {<<"m">>, <<"n">>, <<"m", "n">>, <<"n", "m">>}, force \in BOOLEAN }
    \cup { App(TRUE, <<>>, exclude, force) : exclude \in {{}, {"m"}}, force \in BOOLEAN }

\* one run of the program: main calls install or uninstall, and exits
Runs(op, app, entries, exits, b) ==
    /\ fs' = IF b.items = <<>> THEN fs ELSE b.items[Len(b.items)].post
    /\ last' = [op |-> op, app |-> app, force |-> app.force,
                entries |-> IF app.all THEN entries ELSE <<>>,
                res |-> b.res, pre |-> fs, items |-> b.items]
    /\ prev' = Before(last)
    /\ UNCHANGED <<cfg, mode, desired, granted>>

MainInstall ==
    /\ last.op = "none"
    /\ \E app \in Apps, entries \in Orders(read_dir(fs, ModulesDir).entries),
          exits \in [{"m", "n"} -> {"zero", "nonzero"}] :
           \E om \in KeyOrders(cfg, ModM), on \in KeyOrders(cfg, ModN) :
               Runs("install", app, entries, exits,
                    main_install(fs, cfg, app, entries,
                                 [e \in {"m", "n", "z"} |->
                                     IF e = "m" THEN om ELSE IF e = "n" THEN on ELSE <<>>],
                                 exits))

MainUninstall ==
    /\ last.op = "none"
    /\ \E app \in Apps, entries \in Orders(read_dir(fs, ModulesDir).entries),
          exits \in [{"m", "n"} -> {"zero", "nonzero"}] :
           \E om \in KeyOrders(cfg, ModM), on \in KeyOrders(cfg, ModN) :
               Runs("uninstall", app, entries, exits,
                    main_uninstall(fs, cfg, app, entries,
                                   [e \in {"m", "n", "z"} |->
                                       IF e = "m" THEN om ELSE IF e = "n" THEN on ELSE <<>>],
                                   exits))

NextBatch == MainInstall \/ MainUninstall

SpecBatch == InitBatch /\ [][NextBatch]_vars

----------------------------------------------------------------------------
(* Properties: vocabulary *)

\* bit k of n, counted from the least significant
RECURSIVE Bit(_, _)
Bit(n, k) == IF k = 0 THEN n % 2 ELSE Bit(n \div 2, k - 1)

\* what stands at the path itself, a symbolic link not followed
NodeAt(f, p) == IF LStat(f, p).ok /\ LStat(f, p).at \in Universe THEN f[LStat(f, p).at] ELSE NoNode

\* the owner's read (bit 8) and execute (bit 6) permission on what p resolves to
OwnerMay(f, p, bits) == exists(f, p) /\ \A k \in bits : Bit(f[Stat(f, p).at].perm, k) = 1

ConfigReadable(f, mp) ==
    is_file(f, Join(mp, <<CONFIG_FILE>>)) /\ OwnerMay(f, Join(mp, <<CONFIG_FILE>>), {8})

InitReady(f, c, mp) == ConfigOf(c, mp).init => OwnerMay(f, Join(mp, <<INIT_SCRIPT>>), {8, 6})

CleanupReady(f, c, mp) ==
    ConfigOf(c, mp).cleanup => OwnerMay(f, Join(mp, <<CLEANUP_SCRIPT>>), {8, 6})

ResourcesReady(f, c, mp) ==
    \A k \in DOMAIN ConfigOf(c, mp).resources : OwnerMay(f, Join(mp, <<k>>), {8})

Constructible(f, c, mp) ==
    /\ ConfigReadable(f, mp)
    /\ ConfigOf(c, mp).wellformed
    /\ InitReady(f, c, mp)
    /\ CleanupReady(f, c, mp)
    /\ ResourcesReady(f, c, mp)

----------------------------------------------------------------------------
(* Properties of install and uninstall, under Spec *)

\* the resources of the module r/m and the system file of each
ResourceKeys == DOMAIN cfg[ModM].resources

TargetOf(k) == Join(HomeDir, cfg[ModM].resources[k])

AncestorsOf(p) == {ancestors(p)[i] : i \in DOMAIN ancestors(p)}

\* no two resources share a system file or have one inside the other
Separate ==
    \A j, k \in ResourceKeys : j # k => TargetOf(j) \notin AncestorsOf(TargetOf(k))

\* the call ran no script, or the script it ran exited with status 0
ScriptPassed(c) == c.exit \in {"none", "zero"}

\* nothing stands at any system file, and every directory above one is
\* absent or a directory
CleanHome(f) ==
    \A k \in ResourceKeys :
        /\ NodeAt(f, TargetOf(k)) = NoNode
        /\ \A q \in AncestorsOf(TargetOf(k)) : NodeAt(f, q) = NoNode \/ is_dir(f, q)

\* C1: round trip.  From a home tree in which no system file of the
\* module exists and nothing but directories stands above them,
\* install(force=false) and then uninstall(force=false) both succeed, no
\* system file exists afterwards and the tree is what it was before the
\* install.  Stated for the runs most favourable to it: scripts exit with
\* status 0 and no two resources share or nest their system files.
C1_RoundTrip ==
    [][(/\ last.op = "install" /\ ~last.force /\ ScriptPassed(last)
        /\ CleanHome(last.pre) /\ Separate
        /\ last'.op = "uninstall" /\ ~last'.force /\ ScriptPassed(last'))
       => (/\ last.res = Ok
           /\ last'.res = Ok
           /\ \A k \in ResourceKeys : NodeAt(fs', TargetOf(k)) = NoNode
           /\ fs' = last.pre)]_vars

\* something stands at the system file of k: a file, a directory or a
\* symbolic link, whatever the link points to
Occupied(f, k) == NodeAt(f, TargetOf(k)) # NoNode

\* install(force=false) with an occupied system file
C2_Refused ==
    (/\ last'.op = "install" /\ ~last'.force /\ Separate
     /\ \E k \in ResourceKeys : Occupied(fs, k))
    => \E k \in ResourceKeys :
          Occupied(fs, k) /\ last'.res = Err("Install", "m", TargetOf(k))

\* the same call again with force=true
C2_Forced ==
    (/\ last.op = "install" /\ ~last.force /\ last.res.kind = "Install" /\ Separate
     /\ last'.op = "install" /\ last'.force /\ ScriptPassed(last'))
    => /\ last'.res = Ok
       /\ \A k \in ResourceKeys : NodeAt(fs', TargetOf(k)) = LinkNode(Join(ModM, <<k>>))

\* C2: when a system file is occupied by a file, a directory or a
\* symbolic link of any kind, install(force=false) returns
\* InstallConflict(m, that system file); the call repeated with force=true
\* succeeds and leaves every system file a symbolic link to its resource
\* in the module directory.  Stated for modules whose resources do not
\* share or nest their system files, and for scripts that exit with 0.
C2_ForceReplaces == [][C2_Refused /\ C2_Forced]_vars

\* the system file of k is a symbolic link that does not point to the
\* resource k of the module
Foreign(f, k) ==
    /\ NodeAt(f, TargetOf(k)).kind = "link"
    /\ NodeAt(f, TargetOf(k)).to # Join(ModM, <<k>>)

\* C3: uninstall(force=false) on a module one of whose system files is a
\* symbolic link to something other than its resource returns
\* UninstallMismatch(m, what the link points to) and leaves that link in
\* place.  Stated for trees in which every system file is a symbolic link
\* or absent, so that no other error can come first.
C3_UninstallMismatch ==
    (/\ last.op = "uninstall" /\ ~last.force
     /\ \A k \in ResourceKeys : NodeAt(last.pre, TargetOf(k)).kind \in {"none", "link"}
     /\ \E k \in ResourceKeys : Foreign(last.pre, k))
    => /\ \E k \in ResourceKeys :
             /\ Foreign(last.pre, k)
             /\ last.res = Err("Uninstall", "m", NodeAt(last.pre, TargetOf(k)).to)
       /\ \A k \in ResourceKeys : NodeAt(fs, TargetOf(k)) = NodeAt(last.pre, TargetOf(k))

\* C4: after install(force=false) has succeeded on a module with at least
\* one resource, install(force=false) again on the tree it left returns
\* InstallConflict(m, the first system file examined), which is present;
\* nothing is removed, no link is made, no script is spawned and the tree
\* is unchanged.
C4_ReinstallRefused ==
    (/\ prev.op = "install" /\ ~prev.force /\ prev.res = Ok
     /\ last.op = "install" /\ ~last.force
     /\ ResourceKeys # {})
    => /\ last.res = Err("Install", "m", TargetOf(Head(last.order)))
       /\ exists(last.pre, TargetOf(Head(last.order)))
       /\ last.trace = <<>>
       /\ last.exit = "none"
       /\ fs = last.pre

C4_Witness ==
    /\ prev.op = "install" /\ ~prev.force /\ prev.res = Ok
    /\ last.op = "install" /\ ~last.force
    /\ ResourceKeys = Keys
    /\ cfg[ModM].init
    /\ last.res.kind = "Install"

\* q is an ancestor of p that exists and is not a directory
BlockedBy(f, p, q) == q \in AncestorsOf(p) /\ exists(f, q) /\ ~is_dir(f, q)

\* C5: when the first system file install examines does not exist and has
\* an ancestor q that exists and is not a directory, install(force=false)
\* returns InstallPathConflict(m, q) and changes nothing, and
\* install(force=true) removes q first, goes on, and creates the link at
\* that system file.
C5_BlockedAncestor ==
    \A q \in Universe :
        (/\ last.op = "install" /\ last.order # <<>>
         /\ ~exists(last.pre, TargetOf(Head(last.order)))
         /\ BlockedBy(last.pre, TargetOf(Head(last.order)), q))
        => /\ ~last.force =>
                 /\ last.res = Err("InstallPath", "m", q)
                 /\ last.trace = <<>>
                 /\ fs = last.pre
           /\ last.force =>
                 /\ Len(last.trace) >= 2
                 /\ last.trace[1] = Ev("remove_file", q)
                 /\ last.trace[2] = Ev("symlink", TargetOf(Head(last.order)))
                 /\ NodeAt(last.pre, q) # NodeAt(fs, q)
                 /\ NodeAt(fs, TargetOf(Head(last.order))) =
                        LinkNode(Join(ModM, <<Head(last.order)>>))
                 /\ (Separate /\ ScriptPassed(last)) => last.res = Ok

C5_Witness ==
    /\ last.op = "install" /\ last.force
    /\ BlockedBy(last.pre, <<"h", "a", "b">>, <<"h", "a">>)
    /\ Len(last.trace) >= 2
    /\ last.trace[1] = Ev("remove_file", <<"h", "a">>)
    /\ NodeAt(fs, <<"h", "a", "b">>).kind = "link"
    /\ last.res = Ok

\* C11: when the module declares an init script and it exits non-zero or
\* is killed by a signal, install returns ExecError(m, "init"); when it
\* declares a cleanup script and it exits non-zero, uninstall returns
\* ExecError(m, "cleanup"); when the spawn or the wait fails the call
\* returns IOError.
C11_ScriptExit ==
    /\ (last.op = "install" /\ last.exit \in {"nonzero", "signal"}) =>
          last.res = Err("Exec", "m", <<"init">>)
    /\ (last.op = "uninstall" /\ last.exit = "nonzero") =>
          last.res = Err("Exec", "m", <<"cleanup">>)
    /\ (last.op \in {"install", "uninstall"} /\ last.exit \in {"spawnerr", "waiterr"}) =>
          last.res.kind = "IO" /\ last.res.name = "m"

\* the system file of the i-th resource of the last call, in the order
\* the call went through them
TargetAt(i) == TargetOf(last.order[i])

\* the verification of uninstall passes over the i-th system file: it
\* does not exist, or it is the link to its resource
Passes(f, i) ==
    ~exists(f, TargetAt(i)) \/ NodeAt(f, TargetAt(i)) = LinkNode(Join(ModM, <<last.order[i]>>))

PhaseOf(e) == IF e.ev \in {"remove_file", "remove_dir"} THEN 1 ELSE IF e.ev = "symlink" THEN 2 ELSE 3

EventsOf(t, ev) == {i \in DOMAIN t : t[i].ev = ev}

\* C14: in install the removals of Phase A all come before the links of
\* Phase B, and the init script after them; a link is made only once
\* Phase A has passed every resource, and the script is spawned only once
\* every resource is linked; so when install returns InstallConflict or
\* InstallPathConflict, or fails to remove the first target under force,
\* it has made no link and spawned no script, and has not touched the
\* resources after the failing one.
C14_PhaseOrder ==
    last.op = "install" =>
        /\ \A i, j \in DOMAIN last.trace :
              i < j => PhaseOf(last.trace[i]) <= PhaseOf(last.trace[j])
        /\ (EventsOf(last.trace, "symlink") # {} /\ ~last.force) =>
              \A k \in ResourceKeys :
                  /\ ~exists(last.pre, TargetOf(k))
                  /\ \A q \in AncestorsOf(TargetOf(k)) : ~BlockedBy(last.pre, TargetOf(k), q)
        /\ EventsOf(last.trace, "spawn") # {} =>
              Cardinality(EventsOf(last.trace, "symlink")) = Cardinality(ResourceKeys)
        /\ last.res.kind \in {"Install", "InstallPath"} =>
              /\ EventsOf(last.trace, "symlink") = {}
              /\ EventsOf(last.trace, "spawn") = {}
              /\ last.exit = "none"
              /\ fs = last.pre
        /\ (/\ last.force /\ last.order # <<>>
            /\ exists(last.pre, TargetAt(1)) /\ ~is_file(last.pre, TargetAt(1))
            /\ \/ NodeAt(last.pre, TargetAt(1)).kind = "link"
               \/ Children(last.pre, TargetAt(1)) # {})
           => /\ last.res.kind = "IO"
              /\ last.trace = <<>>
              /\ last.exit = "none"
              /\ fs = last.pre

\* the second resource examined is in conflict, the first was free
C14_Witness ==
    /\ last.op = "install" /\ ~last.force
    /\ Len(last.order) = 2
    /\ NodeAt(last.pre, TargetAt(1)) = NoNode
    /\ last.res = Err("Install", "m", TargetAt(2))
    /\ cfg[ModM].init

\* C15: install(force=false) removes and replaces nothing: every entry
\* there was before the call is there unchanged after it, whatever the
\* call returns, and no removal is in its trace; when it returns
\* InstallConflict or InstallPathConflict the tree is exactly what it was.
C15_NoForceNoRemoval ==
    (last.op = "install" /\ ~last.force) =>
        /\ \A p \in Universe : last.pre[p] # NoNode => fs[p] = last.pre[p]
        /\ EventsOf(last.trace, "remove_file") = {}
        /\ EventsOf(last.trace, "remove_dir") = {}
        /\ last.res.kind \in {"Install", "InstallPath"} => fs = last.pre

\* a file stands where a directory is needed, and stays
C15_Witness ==
    /\ last.op = "install" /\ ~last.force
    /\ last.res = Err("InstallPath", "m", <<"h", "a">>)
    /\ fs[<<"h", "a">>].kind = "file"

\* what uninstall is said to remove: a regular file, an empty directory
\* or a symbolic link, whatever it points to
Removable(f, p) ==
    \/ NodeAt(f, p).kind \in {"file", "link"}
    \/ NodeAt(f, p).kind = "dir" /\ Children(f, LStat(f, p).at) = {}

\* C16: uninstall(force=true) does no verification and removes every
\* system file that is there, be it a regular file, an empty directory or
\* a symbolic link to a file or to a directory, whatever it points to;
\* absent ones are passed over without error; and whenever uninstall
\* returns success no system file of the module is left.  The first part
\* is stated for modules whose system files are neither shared nor nested
\* and a cleanup script that exits with 0.
C16_ForcedRemoval ==
    /\ (/\ last.op = "uninstall" /\ last.force /\ Separate /\ ScriptPassed(last)
        /\ \A k \in ResourceKeys :
              NodeAt(last.pre, TargetOf(k)) = NoNode \/ Removable(last.pre, TargetOf(k)))
       => /\ last.res = Ok
          /\ \A k \in ResourceKeys : NodeAt(fs, TargetOf(k)) = NoNode
    /\ (last.op = "uninstall" /\ last.res = Ok) =>
          \A k \in ResourceKeys : NodeAt(fs, TargetOf(k)) = NoNode

\* the removal loop of uninstall cannot remove the i-th system file: it
\* is a symbolic link to a directory, or a directory with an entry that
\* no earlier resource has as its system file
Stuck(f, i) ==
    \/ NodeAt(f, TargetAt(i)).kind = "link" /\ is_dir(f, TargetAt(i))
    \/ /\ NodeAt(f, TargetAt(i)).kind = "dir"
       /\ \E c \in Children(f, TargetAt(i)) : \A j \in 1..(i - 1) : TargetAt(j) # c

\* the system files before the i-th that the removal loop finds
FoundBefore(f, i) == {j \in 1..(i - 1) : exists(f, TargetAt(j))}

\* C17: when the removal loop of uninstall fails at a resource, the system
\* files it removed before stay removed, those after the failing one are
\* untouched, the call returns IOError and the cleanup script is not
\* spawned; an uninstall after a failed one passes over the system files
\* that are absent and removes only ones that are there.
C17_NoRollback ==
    /\ \A i \in 1..Len(last.order) :
          (/\ last.op = "uninstall" /\ last.force
           /\ Stuck(last.pre, i)
           /\ \A j \in 1..(i - 1) : ~exists(last.pre, TargetAt(j)) \/ is_file(last.pre, TargetAt(j)))
          => /\ last.res.kind = "IO"
             /\ last.exit = "none"
             /\ EventsOf(last.trace, "spawn") = {}
             /\ Len(last.trace) = Cardinality(FoundBefore(last.pre, i))
             /\ \A j \in FoundBefore(last.pre, i) : NodeAt(fs, TargetAt(j)) = NoNode
             /\ \A j \in i..Len(last.order) :
                   NodeAt(fs, TargetAt(j)) = NodeAt(last.pre, TargetAt(j))
    /\ (prev.op = "uninstall" /\ prev.res.kind = "IO" /\ last.op = "uninstall") =>
          /\ \A n \in DOMAIN last.trace :
                last.trace[n].ev = "spawn" \/ exists(last.pre, last.trace[n].at)
          /\ \A k \in ResourceKeys :
                ~exists(last.pre, TargetOf(k)) =>
                    /\ \A n \in DOMAIN last.trace : last.trace[n].at # TargetOf(k)
                    /\ NodeAt(fs, TargetOf(k)) = NodeAt(last.pre, TargetOf(k))

\* one system file removed, the next one not
C17_Witness ==
    /\ last.op = "uninstall" /\ last.force
    /\ Len(last.order) = 2
    /\ Stuck(last.pre, 2)
    /\ exists(last.pre, TargetAt(1)) /\ is_file(last.pre, TargetAt(1))
    /\ Len(last.trace) = 1
    /\ last.res.kind = "IO"

\* an uninstall that goes on where a failed one stopped
C17_WitnessResumed ==
    /\ prev.op = "uninstall" /\ prev.res.kind = "IO"
    /\ last.op = "uninstall"
    /\ \E k \in ResourceKeys : ~exists(last.pre, TargetOf(k))
    /\ \E k \in ResourceKeys : exists(last.pre, TargetOf(k))

\* the first loop of install, without force, passes: no system file
\* exists and none has an ancestor in the way
PreflightPasses(f) ==
    \A k \in ResourceKeys :
        /\ ~exists(f, TargetOf(k))
        /\ \A q \in AncestorsOf(TargetOf(k)) : ~BlockedBy(f, TargetOf(k), q)

\* the second loop of install cannot link the i-th resource: a dangling
\* link stands at its system file or above it, or an earlier resource
\* has its system file at or below the same path, or an earlier file
\* resource has its system file above it
Clash(f, i) ==
    \/ \E q \in AncestorsOf(TargetAt(i)) : NodeAt(f, q).kind = "link" /\ ~exists(f, q)
    \/ \E j \in 1..(i - 1) :
          \/ TargetAt(i) \in AncestorsOf(TargetAt(j))
          \/ /\ TargetAt(j) \in AncestorsOf(TargetAt(i))
             /\ ~is_dir(f, Join(ModM, <<last.order[j]>>))

\* C18: when install cannot make the link of a resource in Phase B it
\* returns IOError; the links it made before in the same call are in
\* place, no later resource is linked and the init script is not spawned.
C18_NoRollback ==
    \A i \in 1..Len(last.order) :
        (/\ last.op = "install" /\ ~last.force
         /\ PreflightPasses(last.pre)
         /\ Clash(last.pre, i)
         /\ \A j \in 1..(i - 1) : ~Clash(last.pre, j))
        => /\ last.res.kind = "IO"
           /\ last.exit = "none"
           /\ Len(last.trace) = i - 1
           /\ \A j \in 1..(i - 1) :
                 /\ last.trace[j] = Ev("symlink", TargetAt(j))
                 /\ NodeAt(fs, TargetAt(j)) = LinkNode(Join(ModM, <<last.order[j]>>))

\* one link made, the next one not, with an init script declared
C18_Witness ==
    /\ last.op = "install" /\ ~last.force
    /\ Len(last.order) = 2
    /\ cfg[ModM].init
    /\ PreflightPasses(last.pre)
    /\ last.res.kind = "IO"
    /\ last.trace = <<Ev("symlink", TargetAt(1))>>
    /\ NodeAt(fs, TargetAt(1)).kind = "link"

\* C19: uninstall(force=false) verifies every system file that exists
\* before it removes any: when one of them is not the link to its
\* resource, and whenever the call returns UninstallMismatch or the
\* IOError of read_link, nothing has been removed, the correctly linked
\* system files included, and the cleanup script has not been spawned.
C19_VerifyFirst ==
    (last.op = "uninstall" /\ ~last.force) =>
        /\ (\E i \in 1..Len(last.order) : ~Passes(last.pre, i)) =>
              /\ last.res.kind \in {"Uninstall", "IO"}
              /\ last.trace = <<>>
              /\ last.exit = "none"
              /\ fs = last.pre
        /\ (last.res.kind = "Uninstall" \/ last.res = Err("IO", "m", <<"EINVAL">>)) =>
              /\ last.trace = <<>>
              /\ last.exit = "none"
              /\ fs = last.pre

\* the first system file is correctly linked, the second is not
C19_Witness ==
    /\ last.op = "uninstall" /\ ~last.force
    /\ cfg[ModM].cleanup
    /\ Len(last.order) = 2
    /\ NodeAt(last.pre, TargetAt(1)) = LinkNode(Join(ModM, <<last.order[1]>>))
    /\ last.res.kind = "Uninstall"
    /\ NodeAt(fs, TargetAt(1)) = LinkNode(Join(ModM, <<last.order[1]>>))

\* the entries of the modules directory and below
InModuleDir(p) == Len(p) >= 1 /\ p[1] = "r"

\* nothing at all stands under the home directory
EmptyHome(f) == \A p \in Universe : (Len(p) >= 2 /\ p[1] = "h") => f[p] = NoNode

\* C20: install and uninstall change the tree only at the system files of
\* the module and the directories above them under the home directory;
\* no call creates or removes an entry inside the module directory, also
\* when the system file of one resource is above that of another.
\* Stated for calls that start from an empty home directory.
C20_ModuleDirUntouched ==
    [][(EmptyHome(fs) /\ last'.op \in {"install", "uninstall"})
       => \A p \in Universe : InModuleDir(p) => fs'[p] = fs[p]]_vars

----------------------------------------------------------------------------
(* Properties of one invocation over several modules, under SpecBatch *)

\* the names of the modules the invocation selects: the names given, or
\* with --all the directories that load and are not excluded
Selected ==
    IF last.app.all
    THEN SelectSeq(last.entries,
                   LAMBDA e : /\ is_dir(last.pre, Join(ModulesDir, <<e>>))
                              /\ Constructible(last.pre, cfg, Join(ModulesDir, <<e>>))
                              /\ e \notin last.app.exclude)
    ELSE last.app.modules

\* the system file of the resource rf of the module named e, if it has one
HasTarget(e) == "rf" \in DOMAIN cfg[Join(ModulesDir, <<e>>)].resources

TargetIn(e) == Join(HomeDir, cfg[Join(ModulesDir, <<e>>)].resources["rf"])

LinkOf(e) == LinkNode(Join(ModulesDir, <<e, "rf">>))

\* C12: in one invocation, install (or uninstall) is attempted exactly
\* once on every selected module, in order, each on the tree the one
\* before left; an error is reported for the module that failed, and the
\* modules after it are attempted all the same: one whose system file is
\* free is linked, one whose link is in place is unlinked.
C12_BatchIsolation ==
    (last.op \in {"install", "uninstall"} /\ last.res = Ok) =>
        /\ Len(last.items) = Len(Selected)
        /\ \A i \in DOMAIN last.items :
              /\ last.items[i].name = Selected[i]
              /\ last.items[i].pre = IF i = 1 THEN last.pre ELSE last.items[i - 1].post
              /\ last.items[i].res.kind # "Ok" => last.items[i].res.name = Selected[i]
              /\ (/\ last.op = "install" /\ HasTarget(Selected[i])
                  /\ NodeAt(last.items[i].pre, TargetIn(Selected[i])) = NoNode
                  /\ \A q \in AncestorsOf(TargetIn(Selected[i])) :
                        NodeAt(last.items[i].pre, q) = NoNode \/ is_dir(last.items[i].pre, q))
                 => NodeAt(last.items[i].post, TargetIn(Selected[i])) = LinkOf(Selected[i])
              /\ (/\ last.op = "uninstall" /\ HasTarget(Selected[i])
                  /\ NodeAt(last.items[i].pre, TargetIn(Selected[i])) = LinkOf(Selected[i]))
                 => NodeAt(last.items[i].post, TargetIn(Selected[i])) = NoNode
        /\ fs = IF last.items = <<>> THEN last.pre ELSE last.items[Len(last.items)].post

\* the first module fails and the second is installed
C12_Witness ==
    /\ last.op = "install"
    /\ Len(last.items) = 2
    /\ last.items[1].res.kind \in {"Install", "InstallPath", "Exec"}
    /\ last.items[2].res = Ok
    /\ HasTarget(last.items[2].name)
    /\ NodeAt(fs, TargetIn(last.items[2].name)) = LinkOf(last.items[2].name)

\* the module named e does not load from the tree before the invocation
Unloadable(e) == ~Constructible(last.pre, cfg, Join(ModulesDir, <<e>>))

\* C21: with the modules given by name, if one of them does not load the
\* invocation ends with the error of the first that does not, and install
\* or uninstall is attempted on none of them, the ones that load
\* included; with --all and a modules directory that can be read, the
\* modules that do not load and the excluded ones are dropped and every
\* other module is attempted, once.
C21_SelectionByName ==
    last.op \in {"install", "uninstall"} =>
        /\ \A i \in DOMAIN last.app.modules :
              (/\ ~last.app.all
               /\ Unloadable(last.app.modules[i])
               /\ \A j \in 1..(i - 1) : ~Unloadable(last.app.modules[j]))
              => /\ last.res.kind \in {"IO", "Parse", "Script", "Resource"}
                 /\ last.res.name = last.app.modules[i]
                 /\ last.items = <<>>
                 /\ fs = last.pre
        /\ (/\ last.app.all
            /\ is_dir(last.pre, ModulesDir) /\ OwnerMay(last.pre, ModulesDir, {8})) =>
              /\ last.res = Ok
              /\ \A e \in {"m", "n"} :
                    (\E i \in DOMAIN last.items : last.items[i].name = e)
                    <=> (~Unloadable(e) /\ e \notin last.app.exclude)
              /\ \A i, j \in DOMAIN last.items :
                    last.items[i].name = last.items[j].name => i = j

\* m loads and its system file is free, n does not load: m is not installed
C21_Witness ==
    /\ last.op = "install" /\ ~last.app.all
    /\ last.app.modules = <<"m", "n">>
    /\ ~Unloadable("m") /\ Unloadable("n")
    /\ HasTarget("m") /\ NodeAt(last.pre, TargetIn("m")) = NoNode
    /\ last.res.kind = "Parse"
    /\ NodeAt(fs, TargetIn("m")) = NoNode

\* with --all, n does not load and m is installed
C21_WitnessAll ==
    /\ last.op = "install" /\ last.app.all
    /\ Unloadable("n")
    /\ Len(last.items) = 1
    /\ last.items[1].name = "m"
    /\ last.items[1].res = Ok

----------------------------------------------------------------------------
(* Properties of loading, under SpecLoad *)

\* C6: Module::new(path) returns a Module if and only if the configuration
\* file is readable and decodes, a declared init.sh and a declared
\* cleanup.sh exist with owner read and execute, and every resource key
\* exists under the module directory with owner read; the Module holds the
\* path and the decoded definition; otherwise it returns one error, of kind
\* IO, Parse, Script or Resource, naming the module, and no Module.
C6_ConstructionVerified ==
    last.op = "new" =>
        /\ last.res.kind = "Ok" <=> Constructible(fs, cfg, last.path)
        /\ last.res.kind = "Ok" =>
              last.items[1].value = [path |-> last.path, definition |-> ConfigOf(cfg, last.path)]
        /\ last.res.kind # "Ok" =>
              /\ last.res.kind \in {"IO", "Parse", "Script", "Resource"}
              /\ last.res.name = file_name(last.path)
              /\ last.items[1].value = NoModule

C6_Witness ==
    /\ last.op = "new"
    /\ last.res.kind = "Ok"
    /\ last.items[1].value.definition.init
    /\ last.items[1].value.definition.cleanup
    /\ DOMAIN last.items[1].value.definition.resources = Keys

\* C7: verification stops at the first failure, in the order init, cleanup,
\* resources: a declared init.sh that is missing or without owner read and
\* execute gives Script(name, "init") whatever the cleanup script and the
\* resources are; if init passes, a failing cleanup.sh gives
\* Script(name, "cleanup"); a Resource error means both scripts passed.
C7_VerifyFailFast ==
    (last.op = "new" /\ ConfigReadable(fs, last.path) /\ ConfigOf(cfg, last.path).wellformed) =>
        /\ ~InitReady(fs, cfg, last.path) =>
              last.res = Err("Script", file_name(last.path), <<"init">>)
        /\ (InitReady(fs, cfg, last.path) /\ ~CleanupReady(fs, cfg, last.path)) =>
              last.res = Err("Script", file_name(last.path), <<"cleanup">>)
        /\ last.res.kind = "Resource" =>
              /\ InitReady(fs, cfg, last.path)
              /\ CleanupReady(fs, cfg, last.path)
              /\ last.res.detail[1] \in DOMAIN ConfigOf(cfg, last.path).resources
              /\ ~OwnerMay(fs, Join(last.path, <<last.res.detail[1]>>), {8})

C7_Witness ==
    /\ last.op = "new"
    /\ last.res = Err("Script", "m", <<"init">>)
    /\ ~CleanupReady(fs, cfg, last.path)
    /\ ~ResourcesReady(fs, cfg, last.path)

\* the entries of the modules directory that are directories, as list sees them
ModuleDirs(f, entries) == SelectSeq(entries, LAMBDA e : is_dir(f, Join(ModulesDir, <<e>>)))

\* C8: on a readable modules directory, list returns one element per
\* entry that is a directory, in the order of enumeration, and nothing for
\* the other entries; each element is what Module::new returns for that
\* directory alone, whether the other directories load or fail.
C8_ListKeepsEveryOutcome ==
    (last.op = "list" /\ last.res.kind = "Ok") =>
        /\ Len(last.items) =
              Cardinality({q \in Children(fs, ModulesDir) : KindAt(fs, q) = "dir"})
        /\ Len(last.items) = Len(ModuleDirs(fs, last.order))
        /\ \A i \in DOMAIN last.items :
              last.items[i] \in
                  { Module_new(fs, cfg, Join(ModulesDir, <<ModuleDirs(fs, last.order)[i]>>), o) :
                      o \in KeyOrders(cfg, Join(ModulesDir, <<ModuleDirs(fs, last.order)[i]>>)) }

\* one valid module, one with a malformed configuration, and a plain file
C8_Witness ==
    /\ last.op = "list"
    /\ KindAt(fs, <<"r", "z">>) = "file"
    /\ Len(last.items) = 2
    /\ last.items[1].res.kind = "Parse"
    /\ last.items[2].res.kind = "Ok"
    /\ last.items[2].value.path = ModM

\* C9: when the modules directory is missing or cannot be opened for
\* enumeration, list returns the single error Directory and no sequence of
\* per-module results.
C9_ListDirectoryError ==
    (last.op = "list" /\ ~(is_dir(fs, ModulesDir) /\ OwnerMay(fs, ModulesDir, {8}))) =>
        /\ last.res = Err("Directory", "", <<>>)
        /\ last.items = <<>>

C9_Witness ==
    /\ last.op = "list"
    /\ last.res.kind = "Directory"
    /\ KindAt(fs, ModulesDir) = "dir"
    /\ KindAt(fs, ModM) = "dir"

----------------------------------------------------------------------------
(* Properties of check_permissions, under SpecPerm *)

\* C10: check_permissions(mode, desired) is true if and only if every bit
\* set in desired is also set in mode shifted right by 6; 0o700 grants rwx
\* and rw, 0o600 grants neither wx nor rwx.
C10_CheckPermissions ==
    granted # <<>> =>
        /\ granted[1] <=> \A k \in 0..31 : Bit(desired, k) = 1 => Bit(mode, k + 6) = 1
        /\ (mode = 448 /\ desired = 7) => granted[1]
        /\ (mode = 384 /\ desired = 3) => ~granted[1]
        /\ (mode = 448 /\ desired = 6) => granted[1]
        /\ (mode = 384 /\ desired = 7) => ~granted[1]

C10_Witness == granted = <<FALSE>> /\ mode = 384 /\ desired = 3

====
